---- MODULE Spec2Model ----
(***************************************************************************)
(* Command line front end of audiowmark (src/src/audiowmark.cc): ArgParser, *)
(* the option parsers and main's command dispatch.                          *)
(*                                                                          *)
(* C++ strings are TLA+ strings (TLC evaluates Len, \o and SubSeq on them), *)
(* a vector<string> is a sequence of strings.  A float is the exact decimal *)
(* fraction [num, den] the text denotes.  The command handlers and the      *)
(* functions of other translation units (short_code_init, the key loaders)  *)
(* are calls whose effect on this file's state is what the call site shows; *)
(* the result of short_code_init and the handlers' return value are chosen  *)
(* nondeterministically.                                                    *)
(***************************************************************************)
EXTENDS Integers, Sequences, FiniteSets, TLC

VARIABLES
  argv,         \* the command line as passed to main (argv[1..argc-1]), never changed
  m_args,       \* ArgParser::m_args
  m_command,    \* ArgParser::m_command
  Params,       \* the static members of Params written or read by this file
  key,          \* the global watermarking key (Random::load_global_key / set_global_test_key)
  log_level,    \* set_log_level
  pc,           \* main's position
  args,         \* main's local vector<string> args
  exit_status,  \* the process exit status, Running while main runs
  message,      \* what was reported last (error text or usage/version output)
  calls,        \* the command handlers called so far: arguments and return value
  written,      \* the Params members and globals assigned so far
  short_code    \* the calls of short_code_init so far, with their results

vars == <<argv, m_args, m_command, Params, key, log_level, pc, args,
          exit_status, message, calls, written, short_code>>

(***************************************************************************)
(* Bounds of the command lines explored.                                   *)
(***************************************************************************)
MaxPre == 1
MaxOpts == 3
MaxPos == 4

Running == 0 - 1

(***************************************************************************)
(* C library conversions                                                   *)
(***************************************************************************)
Digits == <<"0", "1", "2", "3", "4", "5", "6", "7", "8", "9">>

IsDigit(c) == \E d \in 1..10 : Digits[d] = c

DigitVal(c) == (CHOOSE d \in 1..10 : Digits[d] = c) - 1

IsSpace(c) == c \in {" ", "\t", "\n", "\r", "\f"}

CharAt(s, i) == SubSeq(s, i, i)

RECURSIVE SkipSpace(_, _)
SkipSpace(s, i) ==
  IF i <= Len(s) /\ IsSpace(CharAt(s, i)) THEN SkipSpace(s, i + 1) ELSE i

\* the digits of s from position i on, accumulated into acc: [val, next, n]
RECURSIVE ScanDigits(_, _, _, _)
ScanDigits(s, i, acc, n) ==
  IF i <= Len(s) /\ IsDigit(CharAt(s, i))
  THEN ScanDigits(s, i + 1, acc * 10 + DigitVal(CharAt(s, i)), n + 1)
  ELSE [val |-> acc, next |-> i, n |-> n]

SignAt(s, i) ==
  IF i <= Len(s) /\ CharAt(s, i) = "-" THEN [sign |-> -1, next |-> i + 1]
  ELSE IF i <= Len(s) /\ CharAt(s, i) = "+" THEN [sign |-> 1, next |-> i + 1]
  ELSE [sign |-> 1, next |-> i]

\* atoi: optional white space, optional sign, decimal digits; 0 when no digits
atoi(s) ==
  LET sg == SignAt(s, SkipSpace(s, 1))
      d  == ScanDigits(s, sg.next, 0, 0)
  IN  sg.sign * d.val

RECURSIVE Pow10(_)
Pow10(n) == IF n = 0 THEN 1 ELSE 10 * Pow10(n - 1)

\* atof on decimal text: optional white space, sign, digits, optional fraction
atof(s) ==
  LET sg == SignAt(s, SkipSpace(s, 1))
      ip == ScanDigits(s, sg.next, 0, 0)
      hasdot == ip.next <= Len(s) /\ CharAt(s, ip.next) = "."
      fp == IF hasdot THEN ScanDigits(s, ip.next + 1, ip.val, 0)
            ELSE [val |-> ip.val, next |-> ip.next, n |-> 0]
  IN  IF ip.n + fp.n = 0 THEN [num |-> 0, den |-> 1]
      ELSE [num |-> sg.sign * fp.val, den |-> Pow10(fp.n)]

FloatDiv(f, k) == [num |-> f.num, den |-> f.den * k]

(***************************************************************************)
(* is_option and ArgParser                                                 *)
(***************************************************************************)
is_option(arg) == Len(arg) > 1 /\ CharAt(arg, 1) = "-"

\* s.substr (0, n): at most n characters
substr0(s, n) == SubSeq(s, 1, IF n < Len(s) THEN n ELSE Len(s))

\* s.substr (pos), pos <= s.size()
substr(s, pos) == SubSeq(s, pos + 1, Len(s))

starts_with(s, start) == substr0(s, Len(start)) = start

\* vector::erase of the elements first..last-1 (1-based positions)
erase(v, first, last) == SubSeq(v, 1, first - 1) \o SubSeq(v, last, Len(v))

\* parse_cmd looking for the command anywhere in the list
parse_cmd_anywhere(a, cmd) == \E i \in 1..Len(a) : a[i] = cmd

parse_cmd(a, cmd) == a # <<>> /\ a[1] = cmd

\* the loop of parse_opt (option, out_s) leaving at the first occurrence
RECURSIVE parse_opt_loop_first(_, _, _, _, _)
parse_opt_loop_first(a, it, option, out_s, found_option) ==
  IF it > Len(a) \/ found_option
  THEN [m_args |-> a, out_s |-> out_s, found |-> found_option]
  ELSE IF a[it] = option /\ it + 1 <= Len(a)
  THEN parse_opt_loop_first(erase(a, it, it + 2), it, option, a[it + 1], TRUE)
  ELSE IF SubSeq(a[it], 1, IF Len(option) + 1 < Len(a[it]) THEN Len(option) + 1
                           ELSE Len(a[it])) = option \o "="
  THEN parse_opt_loop_first(erase(a, it, it + 1), it, option,
                            SubSeq(a[it], Len(option) + 2, Len(a[it])), TRUE)
  ELSE parse_opt_loop_first(a, it + 1, option, out_s, found_option)

\* the while loop of parse_opt (option, out_s); it is the iterator's position
RECURSIVE parse_opt_loop(_, _, _, _, _)
parse_opt_loop(a, it, option, out_s, found_option) ==
  IF it > Len(a)
  THEN [m_args |-> a, out_s |-> out_s, found |-> found_option]
  ELSE IF a[it] = option /\ it + 1 <= Len(a)
  THEN parse_opt_loop(erase(a, it, it + 2), it, option, a[it + 1], TRUE)
  ELSE IF starts_with(a[it], option \o "=")
  THEN parse_opt_loop(erase(a, it, it + 1), it, option,
                      substr(a[it], Len(option) + 1), TRUE)
  ELSE parse_opt_loop(a, it + 1, option, out_s, found_option)

parse_opt_s(a, option, out_s) == parse_opt_loop(a, 1, option, out_s, FALSE)

\* the int overload: a local empty out_s, atoi of it when found
parse_opt_i(a, option, out_i) ==
  LET r == parse_opt_s(a, option, "")
  IN  [m_args |-> r.m_args, found |-> r.found,
       out |-> IF r.found THEN atoi(r.out_s) ELSE out_i]

parse_opt_f(a, option, out_f) ==
  LET r == parse_opt_s(a, option, "")
  IN  [m_args |-> r.m_args, found |-> r.found,
       out |-> IF r.found THEN atof(r.out_s) ELSE out_f]

\* the flag overload comparing only the first option.size () characters
parse_opt_prefix(a, option) ==
  IF \E i \in 1..Len(a) : starts_with(a[i], option)
  THEN LET it == CHOOSE i \in 1..Len(a) :
                   starts_with(a[i], option)
                     /\ \A j \in 1..(i - 1) : ~starts_with(a[j], option)
       IN  [m_args |-> erase(a, it, it + 1), found |-> TRUE]
  ELSE [m_args |-> a, found |-> FALSE]

\* the flag overload: erases the first element equal to option
parse_opt(a, option) ==
  IF \E i \in 1..Len(a) : a[i] = option
  THEN LET it == CHOOSE i \in 1..Len(a) :
                   a[i] = option /\ \A j \in 1..(i - 1) : a[j] # option
       IN  [m_args |-> erase(a, it, it + 1), found |-> TRUE]
  ELSE [m_args |-> a, found |-> FALSE]

\* parse_args without the is_option test
parse_args_count(a, expected_count) == Len(a) = expected_count

parse_args(a, expected_count) ==
  Len(a) = expected_count /\ \A i \in 1..Len(a) : ~is_option(a[i])

(***************************************************************************)
(* The state the option parsers work on: the ArgParser's list, Params, the *)
(* global key, and whether exit () was called.                             *)
(***************************************************************************)
Static == "static"

ParamsInit ==
  [water_delta |-> Static, have_key |-> 0, payload_size |-> Static,
   payload_short |-> FALSE, frames_per_bit |-> Static, mix |-> TRUE,
   input_label |-> Static, output_label |-> Static, snr |-> FALSE,
   input_format |-> Static, output_format |-> Static,
   raw_input_bit_depth |-> Static, raw_output_bit_depth |-> Static,
   raw_input_endian |-> Static, raw_output_endian |-> Static,
   raw_input_encoding |-> Static, raw_output_encoding |-> Static,
   raw_input_channels |-> Static, raw_output_channels |-> Static,
   raw_input_sample_rate |-> Static, raw_output_sample_rate |-> Static,
   test_no_limiter |-> FALSE, test_cut |-> Static, test_truncate |-> Static,
   hard |-> FALSE, test_no_sync |-> FALSE, detect_speed |-> FALSE,
   detect_speed_patient |-> FALSE, try_speed |-> Static, test_speed |-> Static,
   json_output |-> Static, strict |-> FALSE, hls_bit_rate |-> Static,
   expect_matches |-> Static]

State ==
  [m_args |-> m_args, Params |-> Params, key |-> key, written |-> written,
   short_code |-> short_code, exit_status |-> exit_status, message |-> message,
   log_level |-> log_level]

Exited(st) == st.exit_status # Running

\* exit (code) after error (msg)
Exit(st, code, msg) == [st EXCEPT !.exit_status = code, !.message = msg]

\* an assignment to Params::field
SetParam(st, field, val) ==
  [st EXCEPT !.Params[field] = val, !.written = @ \cup {field}]

Taken(st, r) == [st EXCEPT !.m_args = r.m_args]

\* if (ap.parse_opt (option)) Params::field = val;
FlagParam(st, option, field, val) ==
  LET r == parse_opt(st.m_args, option)
  IN  IF Exited(st) THEN st
      ELSE IF r.found THEN SetParam(Taken(st, r), field, val) ELSE st

\* ap.parse_opt (option, Params::field) with an int member
IntParam(st, option, field) ==
  LET r == parse_opt_i(st.m_args, option, st.Params[field])
  IN  IF Exited(st) THEN st
      ELSE IF r.found THEN SetParam(Taken(st, r), field, r.out) ELSE st

\* ap.parse_opt (option, Params::field) with a string member
StrParam(st, option, field) ==
  LET r == parse_opt_s(st.m_args, option, st.Params[field])
  IN  IF Exited(st) THEN st
      ELSE IF r.found THEN SetParam(Taken(st, r), field, r.out_s) ELSE st

\* if (ap.parse_opt (option, f)) Params::field = f;
FloatParam(st, option, field) ==
  LET r == parse_opt_f(st.m_args, option, Static)
  IN  IF Exited(st) THEN st
      ELSE IF r.found THEN SetParam(Taken(st, r), field, r.out) ELSE st

(***************************************************************************)
(* parse_shared_options                                                    *)
(***************************************************************************)
OptStrength(st) ==
  LET r == parse_opt_f(st.m_args, "--strength", Static)
  IN  IF r.found THEN SetParam(Taken(st, r), "water_delta", FloatDiv(r.out, 1000))
      ELSE st

OptKey(st) ==
  LET r == parse_opt_s(st.m_args, "--key", "")
  IN  IF r.found
      THEN [SetParam(Taken(st, r), "have_key", st.Params.have_key + 1)
              EXCEPT !.key = <<"file", r.out_s>>, !.written = @ \cup {"key"}]
      ELSE st

OptTestKey(st) ==
  LET r == parse_opt_i(st.m_args, "--test-key", 0)
  IN  IF r.found
      THEN [SetParam(Taken(st, r), "have_key", st.Params.have_key + 1)
              EXCEPT !.key = <<"test", r.out>>, !.written = @ \cup {"key"}]
      ELSE st

\* --short going on when short_code_init fails
OptShort_NoExit(st, short_ok) ==
  LET r  == parse_opt_i(st.m_args, "--short", 0)
      s1 == [SetParam(Taken(st, r), "payload_size", r.out)
               EXCEPT !.short_code = Append(@, [size |-> r.out, ok |-> short_ok])]
  IN  IF ~r.found THEN st ELSE SetParam(s1, "payload_short", TRUE)

\* short_ok is what short_code_init (Params::payload_size) returns
OptShort(st, short_ok) ==
  LET r  == parse_opt_i(st.m_args, "--short", 0)
      s1 == [SetParam(Taken(st, r), "payload_size", r.out)
               EXCEPT !.short_code = Append(@, [size |-> r.out, ok |-> short_ok])]
  IN  IF ~r.found THEN st
      ELSE IF ~short_ok THEN Exit(s1, 1, "unsupported short payload size")
      ELSE SetParam(s1, "payload_short", TRUE)

KeyOnce(st) ==
  IF Exited(st) THEN st
  ELSE IF st.Params.have_key > 1
  THEN Exit(st, 1, "watermark key can at most be set once")
  ELSE st

parse_shared_options(st, short_ok) ==
  LET s1 == OptStrength(st)
      s2 == OptKey(s1)
      s3 == OptTestKey(s2)
      s4 == OptShort(s3, short_ok)
      s5 == IntParam(s4, "--frames-per-bit", "frames_per_bit")
      s6 == FlagParam(s5, "--linear", "mix", FALSE)
  IN  KeyOnce(s6)

(***************************************************************************)
(* parse_format, parse_endian, parse_encoding and parse_add_options        *)
(***************************************************************************)
FormatNames == {"raw", "auto"}

EndianNames == {"little", "big"}

EncodingNames == {"signed", "unsigned"}

\* if (ap.parse_opt (option, s)) { e = parse_x (s); each of fields = e; }
RECURSIVE SetParams(_, _, _)
SetParams(st, fields, val) ==
  IF fields = <<>> THEN st
  ELSE SetParams(SetParam(st, Head(fields), val), Tail(fields), val)

EnumParam(st, option, names, fields, what) ==
  LET r == parse_opt_s(st.m_args, option, "")
  IN  IF Exited(st) \/ ~r.found THEN st
      ELSE IF r.out_s \notin names THEN Exit(Taken(st, r), 1, "unsupported " \o what)
      ELSE SetParams(Taken(st, r), fields, r.out_s)

\* if (ap.parse_opt (option, i)) each of fields = i;
IntParams(st, option, fields) ==
  LET r == parse_opt_i(st.m_args, option, 0)
  IN  IF Exited(st) \/ ~r.found THEN st
      ELSE SetParams(Taken(st, r), fields, r.out)

parse_add_options(st) ==
  LET s1  == StrParam(st, "--set-input-label", "input_label")
      s2  == StrParam(s1, "--set-output-label", "output_label")
      s3  == FlagParam(s2, "--snr", "snr", TRUE)
      s4  == EnumParam(s3, "--input-format", FormatNames, <<"input_format">>, "format")
      s5  == EnumParam(s4, "--output-format", FormatNames, <<"output_format">>, "format")
      s6  == EnumParam(s5, "--format", FormatNames,
                       <<"output_format", "input_format">>, "format")
      s7  == IntParams(s6, "--raw-input-bits", <<"raw_input_bit_depth">>)
      s8  == IntParams(s7, "--raw-output-bits", <<"raw_output_bit_depth">>)
      s9  == IntParams(s8, "--raw-bits",
                       <<"raw_input_bit_depth", "raw_output_bit_depth">>)
      s10 == EnumParam(s9, "--raw-input-endian", EndianNames,
                       <<"raw_input_endian">>, "endianness")
      s11 == EnumParam(s10, "--raw-output-endian", EndianNames,
                       <<"raw_output_endian">>, "endianness")
      s12 == EnumParam(s11, "--raw-endian", EndianNames,
                       <<"raw_input_endian", "raw_output_endian">>, "endianness")
      s13 == EnumParam(s12, "--raw-input-encoding", EncodingNames,
                       <<"raw_input_encoding">>, "encoding")
      s14 == EnumParam(s13, "--raw-output-encoding", EncodingNames,
                       <<"raw_output_encoding">>, "encoding")
      s15 == EnumParam(s14, "--raw-encoding", EncodingNames,
                       <<"raw_input_encoding", "raw_output_encoding">>, "encoding")
      s16 == IntParams(s15, "--raw-channels",
                       <<"raw_input_channels", "raw_output_channels">>)
      s17 == IntParams(s16, "--raw-rate",
                       <<"raw_input_sample_rate", "raw_output_sample_rate">>)
  IN  FlagParam(s17, "--test-no-limiter", "test_no_limiter", TRUE)

(***************************************************************************)
(* parse_get_options                                                       *)
(***************************************************************************)
\* the speed options with the test speed_options > 2
SpeedOptions_Two(st) ==
  LET r1 == parse_opt(st.m_args, "--detect-speed")
      s1 == IF r1.found THEN SetParam(Taken(st, r1), "detect_speed", TRUE) ELSE st
      r2 == parse_opt(s1.m_args, "--detect-speed-patient")
      s2 == IF r2.found THEN SetParam(Taken(s1, r2), "detect_speed_patient", TRUE)
            ELSE s1
      r3 == parse_opt_f(s2.m_args, "--try-speed", Static)
      s3 == IF r3.found THEN SetParam(Taken(s2, r3), "try_speed", r3.out) ELSE s2
      speed_options == (IF r1.found THEN 1 ELSE 0) + (IF r2.found THEN 1 ELSE 0)
                         + (IF r3.found THEN 1 ELSE 0)
  IN  IF speed_options > 2 THEN Exit(s3, 1, "can only use one option") ELSE s3

\* the three speed options; speed_options counts the ones found
SpeedOptions(st) ==
  LET r1 == parse_opt(st.m_args, "--detect-speed")
      s1 == IF r1.found THEN SetParam(Taken(st, r1), "detect_speed", TRUE) ELSE st
      r2 == parse_opt(s1.m_args, "--detect-speed-patient")
      s2 == IF r2.found THEN SetParam(Taken(s1, r2), "detect_speed_patient", TRUE)
            ELSE s1
      r3 == parse_opt_f(s2.m_args, "--try-speed", Static)
      s3 == IF r3.found THEN SetParam(Taken(s2, r3), "try_speed", r3.out) ELSE s2
      speed_options == (IF r1.found THEN 1 ELSE 0) + (IF r2.found THEN 1 ELSE 0)
                         + (IF r3.found THEN 1 ELSE 0)
  IN  IF speed_options > 1 THEN Exit(s3, 1, "can only use one option") ELSE s3

parse_get_options(st) ==
  LET s1 == IntParam(st, "--test-cut", "test_cut")
      s2 == IntParam(s1, "--test-truncate", "test_truncate")
      s3 == FlagParam(s2, "--hard", "hard", TRUE)
      s4 == FlagParam(s3, "--test-no-sync", "test_no_sync", TRUE)
      s5 == SpeedOptions(s4)
      s6 == FloatParam(s5, "--test-speed", "test_speed")
  IN  StrParam(s6, "--json", "json_output")

(***************************************************************************)
(* parse_positional: the arguments, or exit (1)                            *)
(***************************************************************************)
parse_positional(st, count) ==
  IF parse_args(st.m_args, count) THEN st
  ELSE IF \E i \in 1..Len(st.m_args) : is_option(st.m_args[i])
  THEN Exit(st, 1, "unsupported option")
  ELSE Exit(st, 1, "error parsing arguments")

(***************************************************************************)
(* main                                                                    *)
(***************************************************************************)
\* ap.parse_opt (long) || ap.parse_opt (short): the second only if the first fails
parse_opt_either(a, long, short) ==
  LET r == parse_opt(a, long) IN IF r.found THEN r ELSE parse_opt(a, short)

\* main's global options: help and version return 0, --quiet and --strict are kept
parse_global_options(st) ==
  LET r1 == parse_opt_either(st.m_args, "--help", "-h")
      r2 == parse_opt(st.m_args, "--help-hls")
      r3 == parse_opt_either(st.m_args, "--version", "-v")
      r4 == parse_opt_either(st.m_args, "--quiet", "-q")
      s4 == IF r4.found THEN [Taken(st, r4) EXCEPT !.log_level = "WARNING"] ELSE st
  IN  IF r1.found THEN Exit(Taken(st, r1), 0, "usage")
      ELSE IF r2.found THEN Exit(Taken(st, r2), 0, "usage hls")
      ELSE IF r3.found THEN Exit(Taken(st, r3), 0, "version")
      ELSE FlagParam(s4, "--strict", "strict", TRUE)

\* the branches of main in their order: the command, the option parsers it
\* runs, the names of its positional arguments and the handler it returns
Commands ==
  << [cmd |-> "hls-add", stages |-> <<"shared", "bit_rate">>,
      names |-> <<"input_ts", "output_ts", "message_hex">>, handler |-> "hls_add"],
     [cmd |-> "hls-prepare", stages |-> <<"bit_rate">>,
      names |-> <<"input_dir", "output_dir", "playlist_name", "audio_master">>,
      handler |-> "hls_prepare"],
     [cmd |-> "add", stages |-> <<"shared", "add">>,
      names |-> <<"input_wav", "watermarked_wav", "message_hex">>,
      handler |-> "add_watermark"],
     [cmd |-> "get", stages |-> <<"shared", "get">>,
      names |-> <<"watermarked_wav">>, handler |-> "get_watermark"],
     [cmd |-> "cmp", stages |-> <<"shared", "get", "expect_matches">>,
      names |-> <<"watermarked_wav", "message_hex">>, handler |-> "get_watermark"],
     [cmd |-> "gen-key", stages |-> <<>>,
      names |-> <<"key_file">>, handler |-> "gen_key"],
     [cmd |-> "gentest", stages |-> <<>>,
      names |-> <<"input_wav", "output_wav">>, handler |-> "gentest"],
     [cmd |-> "cut-start", stages |-> <<>>,
      names |-> <<"input_wav", "output_wav", "cut_samples">>, handler |-> "cut_start"],
     [cmd |-> "test-subtract", stages |-> <<>>,
      names |-> <<"input1_wav", "input2_wav", "output_wav">>,
      handler |-> "test_subtract"],
     [cmd |-> "test-snr", stages |-> <<>>,
      names |-> <<"orig_wav", "watermarked_wav">>, handler |-> "test_snr"],
     [cmd |-> "test-clip", stages |-> <<"shared">>,
      names |-> <<"input_wav", "output_wav", "seed", "seconds">>,
      handler |-> "test_clip"],
     [cmd |-> "test-speed", stages |-> <<"shared">>,
      names |-> <<"seed">>, handler |-> "test_speed"],
     [cmd |-> "test-gen-noise", stages |-> <<"shared">>,
      names |-> <<"output_wav", "seconds", "sample_rate">>,
      handler |-> "test_gen_noise"],
     [cmd |-> "test-change-speed", stages |-> <<"shared">>,
      names |-> <<"input_wav", "output_wav", "speed">>,
      handler |-> "test_change_speed"],
     [cmd |-> "test-resample", stages |-> <<"shared">>,
      names |-> <<"input_wav", "output_wav", "new_rate">>,
      handler |-> "test_resample"] >>

CommandNames == {Commands[i].cmd : i \in 1..Len(Commands)}

Branch(cmd) == Commands[CHOOSE i \in 1..Len(Commands) : Commands[i].cmd = cmd]

\* the branches with --expect-matches parsed under get as well
Steps_GetExpect(cmd) ==
  IF cmd = "get" THEN <<"shared", "get", "expect_matches", "positional", "call">>
  ELSE Branch(cmd).stages \o <<"positional", "call">>

\* the statements of a branch in order, ending with parse_positional and the call
Steps(cmd) == Branch(cmd).stages \o <<"positional", "call">>

StepAfter(cmd, step) ==
  LET S == Steps(cmd) IN S[(CHOOSE i \in 1..Len(S) : S[i] = step) + 1]

\* the arguments main passes to the handler of cmd
HandlerArgs(cmd, a) ==
  CASE cmd = "get" -> <<a[1], "">>
    [] cmd = "test-clip" -> <<a[1], a[2], atoi(a[3]), atoi(a[4])>>
    [] cmd = "test-speed" -> <<atoi(a[1])>>
    [] cmd = "test-gen-noise" -> <<a[1], atof(a[2]), atoi(a[3])>>
    [] cmd = "test-change-speed" -> <<a[1], a[2], atof(a[3])>>
    [] cmd = "test-resample" -> <<a[1], a[2], atoi(a[3])>>
    [] OTHER -> a

\* what a handler may return: test_speed returns 0, the others 0 or 1
HandlerReturns(fn) == IF fn = "test_speed" THEN {0} ELSE {0, 1}

\* the state after a parser ran: main goes on at step unless exit () was called
Commit(st, step) ==
  /\ m_args' = st.m_args
  /\ Params' = st.Params
  /\ key' = st.key
  /\ written' = st.written
  /\ short_code' = st.short_code
  /\ exit_status' = st.exit_status
  /\ message' = st.message
  /\ log_level' = st.log_level
  /\ pc' = IF Exited(st) THEN "done" ELSE step

GlobalOptions ==
  /\ pc = "global"
  /\ Commit(parse_global_options(State), "command")
  /\ UNCHANGED <<argv, m_command, args, calls>>

\* the else-if chain of parse_cmd calls and the errors after it
Command ==
  /\ pc = "command"
  /\ IF \E i \in 1..Len(Commands) : parse_cmd(m_args, Commands[i].cmd)
     THEN LET first == CHOOSE i \in 1..Len(Commands) :
                         /\ parse_cmd(m_args, Commands[i].cmd)
                         /\ \A j \in 1..(i - 1) : ~parse_cmd(m_args, Commands[j].cmd)
              cmd == Commands[first].cmd
          IN  /\ m_command' = cmd
              /\ Commit(Taken(State, [m_args |-> erase(m_args, 1, 2)]), Steps(cmd)[1])
     ELSE /\ m_command' = m_command
          /\ Commit(Exit(State, 1,
                         IF m_args = <<>> THEN "error parsing commandline args"
                         ELSE IF is_option(m_args[1]) THEN "unsupported global option"
                         ELSE "unsupported command"), "done")
  /\ UNCHANGED <<argv, args, calls>>

SharedOptions ==
  /\ pc = "shared"
  /\ \E short_ok \in BOOLEAN :
       Commit(parse_shared_options(State, short_ok), StepAfter(m_command, "shared"))
  /\ UNCHANGED <<argv, m_command, args, calls>>

BitRate ==
  /\ pc = "bit_rate"
  /\ Commit(IntParam(State, "--bit-rate", "hls_bit_rate"),
            StepAfter(m_command, "bit_rate"))
  /\ UNCHANGED <<argv, m_command, args, calls>>

AddOptions ==
  /\ pc = "add"
  /\ Commit(parse_add_options(State), StepAfter(m_command, "add"))
  /\ UNCHANGED <<argv, m_command, args, calls>>

GetOptions ==
  /\ pc = "get"
  /\ Commit(parse_get_options(State), StepAfter(m_command, "get"))
  /\ UNCHANGED <<argv, m_command, args, calls>>

ExpectMatches ==
  /\ pc = "expect_matches"
  /\ Commit(IntParam(State, "--expect-matches", "expect_matches"),
            StepAfter(m_command, "expect_matches"))
  /\ UNCHANGED <<argv, m_command, args, calls>>

Positional ==
  /\ pc = "positional"
  /\ LET st == parse_positional(State, Len(Branch(m_command).names))
     IN  /\ Commit(st, "call")
         /\ args' = IF Exited(st) THEN args ELSE m_args
  /\ UNCHANGED <<argv, m_command, calls>>

\* the handler's call with Params::strict set on the way out
CallHandler_LateWrite ==
  /\ pc = "call"
  /\ \E rv \in HandlerReturns(Branch(m_command).handler) :
       /\ calls' = Append(calls, [fn |-> Branch(m_command).handler,
                                  args |-> HandlerArgs(m_command, args), ret |-> rv])
       /\ exit_status' = rv
  /\ pc' = "done"
  /\ Params' = [Params EXCEPT !.strict = TRUE]
  /\ written' = written \cup {"strict"}
  /\ UNCHANGED <<argv, m_args, m_command, key, log_level, args, message, short_code>>

\* return handler (args...)
CallHandler ==
  /\ pc = "call"
  /\ \E rv \in HandlerReturns(Branch(m_command).handler) :
       /\ calls' = Append(calls, [fn |-> Branch(m_command).handler,
                                  args |-> HandlerArgs(m_command, args), ret |-> rv])
       /\ exit_status' = rv
  /\ pc' = "done"
  /\ UNCHANGED <<argv, m_args, m_command, Params, key, log_level, args, message,
                 written, short_code>>

Next ==
  \/ GlobalOptions
  \/ Command
  \/ SharedOptions
  \/ BitRate
  \/ AddOptions
  \/ GetOptions
  \/ ExpectMatches
  \/ Positional
  \/ CallHandler

(***************************************************************************)
(* The command lines explored                                              *)
(***************************************************************************)
SeqUpTo(S, n) == UNION {[1..k -> S] : k \in 0..n}

PreTokens == {"--help", "-h", "--help-hls", "--version", "--quiet", "-q",
              "--strict", "--key"}

PosTokens == {"f", "-"}

OptTokens == {"--key", "--key=a", "--test-key", "--short", "1",
              "--detect-speed", "--detect-speed-patient", "--try-speed",
              "--expect-matches", "--format"}

OptCommands == {"add", "get", "cmp", "hls-add"}

PosWords == <<"in", "out", "msg", "x">>

Repeat(w, k) == [i \in 1..k |-> w]

\* global options, then a command or none or an unknown one, then up to MaxPos
\* positional arguments
PlainLine(line) ==
  \E pre \in SeqUpTo(PreTokens, MaxPre),
     c \in {<<>>} \cup {<<x>> : x \in CommandNames \cup {"foo"}},
     w \in PosTokens, k \in 0..MaxPos :
    line = pre \o c \o Repeat(w, k)

\* a command, up to MaxOpts option tokens, and none or all of its positional
\* arguments
OptionLine(line) ==
  \E c \in OptCommands, opts \in SeqUpTo(OptTokens, MaxOpts), all \in BOOLEAN :
    line = <<c>> \o opts
             \o SubSeq(PosWords, 1, IF all THEN Len(Branch(c).names) ELSE 0)

Init ==
  /\ PlainLine(argv) \/ OptionLine(argv)
  /\ m_args = argv
  /\ m_command = ""
  /\ Params = ParamsInit
  /\ key = <<"none">>
  /\ log_level = Static
  /\ pc = "global"
  /\ args = <<>>
  /\ exit_status = Running
  /\ message = ""
  /\ calls = <<>>
  /\ written = {}
  /\ short_code = <<>>

Spec == Init /\ [][Next]_vars

(***************************************************************************)
(* Properties                                                              *)
(***************************************************************************)
Elems(a) == {a[i] : i \in 1..Len(a)}

Done == pc = "done"

NoCall == calls = <<>>

KeyOptions == {"--key", "--test-key"}

\* the option names that take a value, among the ones the parsers look for
ValueOptions == {"--strength", "--key", "--test-key", "--short", "--try-speed",
                 "--json", "--expect-matches", "--format", "--bit-rate"}

\* the flags the parsers look for
FlagOptions == {"--help", "-h", "--quiet", "-q", "--strict", "--linear", "--snr",
                "--hard", "--detect-speed", "--detect-speed-patient"}

\* position i of a starts an occurrence of option: "option value" (a value must
\* follow) or "option=value", and the element is not itself the value of an
\* occurrence that starts just before it
RECURSIVE OccursAt(_, _, _)
OccursAt(a, option, i) ==
  /\ i \in 1..Len(a)
  /\ \/ a[i] = option /\ i < Len(a)
     \/ starts_with(a[i], option \o "=")
  /\ ~(i > 1 /\ a[i - 1] = option /\ OccursAt(a, option, i - 1))

IsValueAt(a, option, i) == i > 1 /\ a[i - 1] = option /\ OccursAt(a, option, i - 1)

\* the elements of a from position i on that belong to no occurrence of option
RECURSIVE Others(_, _, _)
Others(a, option, i) ==
  IF i > Len(a) THEN <<>>
  ELSE IF OccursAt(a, option, i) \/ IsValueAt(a, option, i)
  THEN Others(a, option, i + 1)
  ELSE <<a[i]>> \o Others(a, option, i + 1)

ValueAt(a, option, i) ==
  IF a[i] = option THEN a[i + 1] ELSE SubSeq(a[i], Len(option) + 2, Len(a[i]))

\* C8: parse_opt (option, out_s) on the argument list parse_shared_options is
\* about to work on, for each option name that takes a value: every
\* occurrence of the option, in the two element form and in the option=value
\* form, is removed and nothing else is, the other arguments keep their order,
\* out_s is the value of the last occurrence and the result is true; with no
\* occurrence the result is false and the list and out_s are unchanged.  A bare
\* option can remain only as the last element.  Once parse_shared_options has
\* run, this holds of --key in the program's list.
C8_ParseOptValue ==
  /\ \A option \in (IF pc = "shared" THEN ValueOptions ELSE {}) :
       LET r    == parse_opt_s(m_args, option, "unchanged")
           occ  == {i \in 1..Len(m_args) : OccursAt(m_args, option, i)}
           last == CHOOSE i \in occ : \A j \in occ : j <= i
       IN  /\ r.found = (occ # {})
           /\ r.m_args = Others(m_args, option, 1)
           /\ occ # {} => r.out_s = ValueAt(m_args, option, last)
           /\ occ = {} => r.m_args = m_args /\ r.out_s = "unchanged"
           /\ \A i \in 1..Len(r.m_args) :
                /\ ~starts_with(r.m_args[i], option \o "=")
                /\ r.m_args[i] = option => i = Len(r.m_args)
  /\ (m_command # "" /\ "shared" \in Elems(Branch(m_command).stages) /\ pc # "shared")
       => \A i \in 1..Len(m_args) :
            /\ ~starts_with(m_args[i], "--key=")
            /\ m_args[i] = "--key" => i = Len(m_args)

\* two occurrences of --key in the two forms were parsed: the key is the one
\* of the last occurrence and only the positional argument is left
C8_Witness ==
  /\ argv = <<"get", "--key", "1", "--key=a", "in">>
  /\ pc = "get"
  /\ key = <<"file", "a">>
  /\ m_args = <<"in">>

KeySourceAt(line, i) ==
  /\ \E o \in KeyOptions :
       \/ starts_with(line[i], o \o "=")
       \/ line[i] = o /\ i < Len(line) /\ ~is_option(line[i + 1])
  /\ \/ ~is_option(line[i - 1])
     \/ \E o \in KeyOptions : starts_with(line[i - 1], o \o "=")

KeySources(line) == {i \in 2..Len(line) : KeySourceAt(line, i)}

\* C1: a command line of add, get, cmp or hls-add with two or more key sources
\* (the same option twice included) ends with exit status 1 and the handler is
\* never called.
C1_KeyConflict ==
  (argv # <<>> /\ argv[1] \in {"add", "get", "cmp", "hls-add"}
     /\ Cardinality(KeySources(argv)) >= 2)
    => /\ NoCall
       /\ pc # "call"
       /\ Done => exit_status = 1

\* C2: main assigns Params, the key and the log level only before it calls the
\* command handler: the step that calls the handler changes none of them and
\* ends main with the handler's return value as exit status, a handler is
\* called only by that step, and main takes no step after it.
C2_ConfigBeforeHandler ==
  [][/\ pc = "call" =>
          /\ Params' = Params /\ key' = key /\ log_level' = log_level
          /\ written' = written
          /\ Len(calls') = 1 /\ pc' = "done" /\ exit_status' = calls'[1].ret
     /\ calls' # calls => pc = "call"
     /\ NoCall]_vars

\* the key and expect_matches were set, then the handler ran
C2_Witness ==
  /\ ~NoCall
  /\ {"key", "expect_matches"} \subseteq written
  /\ exit_status = calls[1].ret

\* the remaining arguments are what the command expects
ArgsExpected ==
  /\ Len(m_args) = Len(Branch(m_command).names)
  /\ \A i \in 1..Len(m_args) : ~(Len(m_args[i]) > 1 /\ SubSeq(m_args[i], 1, 1) = "-")

\* C3: the handler is called only with the remaining arguments being exactly
\* the command's positional arguments, none of them an option; otherwise
\* parse_positional ends the run with status 1 and no call, reporting an
\* unsupported option when a remaining argument is an option and the usage
\* error when not.
C3_PositionalArguments ==
  /\ []((pc = "call" \/ ~NoCall) => ArgsExpected /\ args = m_args)
  /\ [][pc = "positional" =>
          IF ArgsExpected
          THEN pc' = "call" /\ args' = m_args /\ exit_status' = Running
          ELSE /\ pc' = "done" /\ exit_status' = 1 /\ calls' = <<>>
               /\ message' = IF \E i \in 1..Len(m_args) :
                                   Len(m_args[i]) > 1 /\ SubSeq(m_args[i], 1, 1) = "-"
                              THEN "unsupported option"
                              ELSE "error parsing arguments"]_vars

\* add was given three arguments, one of them an option the parsers left
C3_Witness ==
  /\ Done
  /\ m_command = "add"
  /\ Len(m_args) = 3
  /\ message = "unsupported option"
  /\ NoCall

SpeedModes == {"detect_speed", "detect_speed_patient", "try_speed"} \cap written

\* C4: when parse_get_options has set more than one of detect_speed,
\* detect_speed_patient and try_speed, the run has ended with status 1 and no
\* handler call; at a call of get_watermark at most one of them was set.
C4_SpeedModes ==
  /\ Cardinality(SpeedModes) > 1 =>
       /\ Done /\ exit_status = 1 /\ NoCall
       /\ message = "can only use one option"
  /\ (pc = "call" \/ ~NoCall) =>
       /\ Cardinality(SpeedModes) <= 1
       /\ ~(Params.detect_speed /\ Params.detect_speed_patient)

\* get --detect-speed --try-speed 1 in
C4_Witness ==
  /\ Done
  /\ m_command = "get"
  /\ SpeedModes = {"detect_speed", "try_speed"}
  /\ exit_status = 1

\* what main removes first: the first --quiet, or without one the first -q, and
\* the first --strict
RemovedFlags ==
  {"--strict"} \cup (IF "--quiet" \in Elems(argv) THEN {"--quiet"} ELSE {"-q"})

Remaining ==
  {i \in 1..Len(argv) :
     ~(argv[i] \in RemovedFlags /\ \A j \in 1..(i - 1) : argv[j] # argv[i])}

FirstRemaining == argv[CHOOSE i \in Remaining : \A j \in Remaining : i <= j]

HelpGiven == Elems(argv) \cap {"--help", "-h", "--help-hls", "--version", "-v"} # {}

IsExpectMatches(t) == t = "--expect-matches" \/ starts_with(t, "--expect-matches=")

\* C6: get calls get_watermark with an empty expected message, cmp with its
\* second positional argument as it stands; expect_matches is assigned only
\* under cmp; under get an --expect-matches at the front of the arguments stays
\* there, and one that is left ends the run with status 1 and no call.
C6_ExpectedMessage ==
  /\ [](\A i \in 1..Len(calls) :
          calls[i].fn = "get_watermark" =>
            /\ m_command \in {"get", "cmp"}
            /\ m_command = "get" => Len(m_args) = 1 /\ calls[i].args = <<m_args[1], "">>
            /\ m_command = "cmp" =>
                 Len(m_args) = 2 /\ calls[i].args = <<m_args[1], m_args[2]>>)
  /\ []("expect_matches" \in written => m_command = "cmp")
  /\ []((m_command = "get" /\ \E i \in 1..Len(m_args) : IsExpectMatches(m_args[i]))
          => NoCall /\ pc # "call" /\ (Done => exit_status = 1))
  /\ [][(m_command = "get" /\ m_args # <<>> /\ IsExpectMatches(m_args[1]))
          => m_args' # <<>> /\ m_args'[1] = m_args[1]]_vars

\* cmp --expect-matches 1 in out
C6_Witness ==
  /\ m_command = "cmp"
  /\ "expect_matches" \in written
  /\ ~NoCall
  /\ calls[1].args = <<"in", "out">>

\* C7: when short_code_init rejects the size given with --short the run ends
\* with status 1 and no handler call; at a handler call payload_short is true
\* only when short_code_init accepted the value stored in payload_size.
C7_ShortPayload ==
  /\ Len(short_code) <= 1
  /\ (short_code # <<>>) = ("payload_size" \in written)
  /\ \A i \in 1..Len(short_code) :
       ~short_code[i].ok =>
         /\ Done /\ exit_status = 1 /\ NoCall
         /\ ~Params.payload_short
         /\ message = "unsupported short payload size"
  /\ ((pc = "call" \/ ~NoCall) /\ Params.payload_short) =>
       /\ "payload_size" \in written
       /\ \E i \in 1..Len(short_code) :
            short_code[i].ok /\ short_code[i].size = Params.payload_size

\* add --short 1 in out msg with the size rejected
C7_Witness ==
  /\ m_command = "add"
  /\ short_code = <<[size |-> 1, ok |-> FALSE]>>
  /\ Done
  /\ exit_status = 1

====
